---- MODULE Spec2Model ----
(***************************************************************************)
(* wmbusmeters: the command line start-up (startUsingCommandline) and the  *)
(* oneshot controller (oneshotCheck) of src/main.cc, together with the     *)
(* parts of the serial manager, the wmbus adapters and the meters that     *)
(* main.cc drives.                                                        *)
(***************************************************************************)
EXTENDS Naturals, Sequences, FiniteSets

\* ---------------------------------------------------------------- bounds
MaxMeters == 2

MaxTelegrams == 2

\* ------------------------------------------------------------- vocabulary
DeviceTypes ==
    {"DEVICE_IM871A", "DEVICE_AMB8465", "DEVICE_SIMULATOR", "DEVICE_RTLWMBUS", "DEVICE_UNKNOWN"}

\* The meter type names a configuration is drawn from: two names that share a
\* driver and a link mode, one of the other link mode, and one unknown name.
ConfigTypeNames == {"multical21", "flowiq3100", "iperl", "nosuchmeter"}

MeterIds == {1, 2}

\* The link mode a Configuration holds before any --c1/--t1 or inference.
LinkModeUnset == "UNSET"

toMeterType(type) ==
    CASE type = "multical21"  -> "MULTICAL21_METER"
      [] type = "flowiq3100"  -> "FLOWIQ3100_METER"
      [] type = "multical302" -> "MULTICAL302_METER"
      [] type = "omnipower"   -> "OMNIPOWER_METER"
      [] type = "supercom587" -> "SUPERCOM587_METER"
      [] type = "iperl"       -> "IPERL_METER"
      [] type = "qcaloric"    -> "QCALORIC_METER"
      [] type = "apator162"   -> "APATOR162_METER"
      [] OTHER                -> "UNKNOWN_METER"

toMeterLinkMode(type) ==
    CASE type \in {"multical21", "flowiq3100", "multical302", "omnipower", "qcaloric"} -> "C1"
      [] type \in {"supercom587", "iperl", "apator162"} -> "T1"
      [] OTHER -> "UNKNOWN"

\* The factory the switch of startUsingCommandline calls for a meter type:
\* flowiq3100 is created by createMultical21.
MeterFactory(mt) ==
    CASE mt = "MULTICAL21_METER"  -> "multical21"
      [] mt = "FLOWIQ3100_METER"  -> "multical21"
      [] mt = "MULTICAL302_METER" -> "multical302"
      [] mt = "OMNIPOWER_METER"   -> "omnipower"
      [] mt = "SUPERCOM587_METER" -> "supercom587"
      [] mt = "IPERL_METER"       -> "iperl"
      [] mt = "QCALORIC_METER"    -> "qcaloric"
      [] mt = "APATOR162_METER"   -> "apator162"

\* What a telegram is to the dispatcher: the id of its A-field, the meter
\* family its M-field and device type belong to, and whether its payload
\* decrypts with the key of the meter it is for.
TelegramKinds == {"multical21", "iperl"}

Telegrams == [id : MeterIds, kind : TelegramKinds, decrypts : BOOLEAN]

MeterConfigs == [type : ConfigTypeNames, id : MeterIds]

SeqsUpTo(S, n) == UNION {[1..k -> S] : k \in 0..n}

VARIABLES
    config,          \* the Configuration as parsed from the command line
    link_mode_set,   \* config->link_mode_set
    link_mode,       \* config->link_mode
    pc,              \* position of startUsingCommandline
    exit_code,       \* the code exit() was called with, "none" while running
    device,          \* type_and_device.first
    set_link_mode,   \* the arguments setLinkMode() was called with, in order
    meters,          \* vector<unique_ptr<Meter>> meters
    printed,         \* printed[i]: number of output->print calls for meters[i]
    id_print,        \* the t->print() telegram listener is registered on the adapter
    id_prints,       \* the ids printed by that listener, in order
    heard,           \* of each telegram the adapter has emitted, in order: id and decrypts
    running,         \* the manager's running flag, cleared by stop()
    stops,           \* who has called manager->stop()
    inflight,        \* the update callbacks still to run for the current telegram
    simulated,       \* simulate() has been called
    waited           \* waitForStop() has been entered

vars == <<config, link_mode_set, link_mode, pc, exit_code, device, set_link_mode, meters,
          printed, id_print, id_prints, heard, running, stops, inflight, simulated, waited>>

NoCallback == [m |-> 0, k |-> 0]

\* The command lines: --c1 / --t1 set link_mode and link_mode_set together.
\* Whether --exitafter is given is not part of the record: ExitAfter below is
\* the deadline of a command line that gives one.
Configurations ==
    {c \in [meters : SeqsUpTo(MeterConfigs, MaxMeters),
            link_mode_set : BOOLEAN,
            link_mode : {LinkModeUnset, "C1", "T1"},
            oneshot : BOOLEAN,
            list_shell_envs : BOOLEAN] :
        c.link_mode_set <=> (c.link_mode # LinkModeUnset)}

Init ==
    /\ config \in Configurations
    /\ link_mode_set = config.link_mode_set
    /\ link_mode = config.link_mode
    /\ pc = "detect"
    /\ exit_code = "none"
    /\ device = "none"
    /\ set_link_mode = <<>>
    /\ meters = <<>>
    /\ printed = <<>>
    /\ id_print = FALSE
    /\ id_prints = <<>>
    /\ heard = <<>>
    /\ running = TRUE
    /\ stops = {}
    /\ inflight = NoCallback
    /\ simulated = FALSE
    /\ waited = FALSE

\* ------------------------------------------------------------ termination
\* exit(code): the process ends where it stands.
Exit(code) ==
    /\ pc' = "exited"
    /\ exit_code' = code

\* error(...): reports and ends the process with a failure status.
FatalError == Exit("error")

\* ------------------------------------------------------- device detection
DeviceUnknown_falls_through(d) == FALSE

DeviceUnknown(d) == d = "DEVICE_UNKNOWN"

\* detectMBusDevice and the switch on its result.
DetectDevice ==
    /\ pc = "detect"
    /\ \E d \in DeviceTypes :
          /\ device' = d
          /\ IF DeviceUnknown(d) THEN Exit("1")
                                  ELSE pc' = "infer" /\ UNCHANGED exit_code
    /\ UNCHANGED <<config, link_mode_set, link_mode, set_link_mode, meters, printed,
                   id_print, id_prints, heard, running, stops, inflight, simulated, waited>>

\* ---------------------------------------------------------- link mode
\* The loop over config->meters that infers the link mode: st is
\* [set, mode, err], the state after the meters before index i.
RECURSIVE InferLoop(_, _, _, _)
InferLoop(ms, i, st, dev) ==
    IF i > Len(ms) \/ st.err THEN st
    ELSE LET lm == toMeterLinkMode(ms[i].type) IN
         IF ~st.set
         THEN InferLoop(ms, i + 1, [set |-> TRUE, mode |-> lm, err |-> FALSE], dev)
         ELSE IF st.mode # lm /\ dev # "DEVICE_RTLWMBUS"
              THEN [st EXCEPT !.err = TRUE]
              ELSE InferLoop(ms, i + 1, st, dev)

InferLinkMode_last(ms, set, mode, dev) ==
    IF set \/ Len(ms) = 0 THEN [set |-> set, mode |-> mode, err |-> FALSE]
    ELSE [set |-> TRUE, mode |-> toMeterLinkMode(ms[Len(ms)].type),
          err |-> InferLoop(ms, 1, [set |-> FALSE, mode |-> mode, err |-> FALSE], dev).err]

InferLinkMode(ms, set, mode, dev) ==
    IF set THEN [set |-> set, mode |-> mode, err |-> FALSE]
    ELSE InferLoop(ms, 1, [set |-> set, mode |-> mode, err |-> FALSE], dev)

ExamineMeters ==
    /\ pc = "infer"
    /\ LET r == InferLinkMode(config.meters, link_mode_set, link_mode, device) IN
          /\ link_mode_set' = r.set
          /\ link_mode' = r.mode
          /\ IF r.err THEN FatalError ELSE pc' = "checklm" /\ UNCHANGED exit_code
    /\ UNCHANGED <<config, device, set_link_mode, meters, printed, id_print, id_prints,
                   heard, running, stops, inflight, simulated, waited>>

LinkModeNeeded_simulator_too(dev) == dev # "DEVICE_RTLWMBUS"

\* The adapters that cannot listen without being told a link mode.
LinkModeNeeded(dev) == dev # "DEVICE_RTLWMBUS" /\ dev # "DEVICE_SIMULATOR"

CheckLinkModeSet ==
    /\ pc = "checklm"
    /\ IF ~link_mode_set /\ LinkModeNeeded(device)
       THEN FatalError
       ELSE pc' = "setlm" /\ UNCHANGED exit_code
    /\ UNCHANGED <<config, link_mode_set, link_mode, device, set_link_mode, meters, printed,
                   id_print, id_prints, heard, running, stops, inflight, simulated, waited>>

SetLinkMode ==
    /\ pc = "setlm"
    /\ set_link_mode' = Append(set_link_mode, link_mode)
    /\ pc' = "meters"
    /\ UNCHANGED <<config, link_mode_set, link_mode, exit_code, device, meters, printed,
                   id_print, id_prints, heard, running, stops, inflight, simulated, waited>>

\* ------------------------------------------------------ meter creation
MetersConfigured == Len(config.meters) > 0

OnUpdate_oneshot_first == <<"oneshotCheck", "print">>

\* The two onUpdate registrations on a new meter, in their order.
OnUpdate == <<"print", "oneshotCheck">>

PushFront(ms, m) == <<m>> \o ms

\* meters.push_back(create...(wmbus, name, id, key))
PushBack(ms, m) == Append(ms, m)

\* A meter as its factory returns it: no update seen, no callback registered.
NewMeter(factory, id) ==
    [factory |-> factory, id |-> id, num_updates |-> 0, on_update |-> <<>>]

\* One iteration of the loop over config->meters.
CreateMeter ==
    /\ pc = "meters"
    /\ MetersConfigured
    /\ Len(meters) < Len(config.meters)
    /\ LET m  == config.meters[Len(meters) + 1]
           mt == toMeterType(m.type)
       IN  IF mt = "UNKNOWN_METER"
           THEN /\ FatalError
                /\ UNCHANGED <<meters, printed>>
           ELSE LET pushed == PushBack(meters, NewMeter(MeterFactory(mt), m.id)) IN
                IF config.list_shell_envs
                THEN /\ Exit("0")
                     /\ meters' = pushed
                     /\ printed' = Append(printed, 0)
                ELSE /\ meters' = [pushed EXCEPT ![Len(pushed)].on_update = OnUpdate]
                     /\ printed' = Append(printed, 0)
                     /\ pc' = IF Len(pushed) = Len(config.meters) THEN "started" ELSE "meters"
                     /\ UNCHANGED exit_code
    /\ UNCHANGED <<config, link_mode_set, link_mode, device, set_link_mode, id_print,
                   id_prints, heard, running, stops, inflight, simulated, waited>>

RegisterIdPrint_forgotten ==
    /\ pc = "meters"
    /\ ~MetersConfigured
    /\ pc' = "started"
    /\ UNCHANGED <<config, link_mode_set, link_mode, exit_code, device, set_link_mode, meters,
                   printed, id_print, id_prints, heard, running, stops, inflight, simulated,
                   waited>>

\* wmbus->onTelegram([](Telegram *t){t->print();})
RegisterIdPrint ==
    /\ pc = "meters"
    /\ ~MetersConfigured
    /\ id_print' = TRUE
    /\ pc' = "started"
    /\ UNCHANGED <<config, link_mode_set, link_mode, exit_code, device, set_link_mode, meters,
                   printed, id_prints, heard, running, stops, inflight, simulated, waited>>

\* --------------------------------------------------------- serial manager
\* manager->stop(), called by who: the running flag is cleared; calling it
\* again changes nothing.
Stop(who) ==
    /\ running' = FALSE
    /\ stops' = stops \cup {who}

\* The exit handler installed by onExit(call(manager, stop)): INT or TERM
\* arrives at any moment of the process's life. On a stopped manager the
\* call changes nothing.
ExitHandler ==
    /\ pc \notin {"exited", "done"}
    /\ running
    /\ Stop("onExit")
    /\ UNCHANGED <<config, link_mode_set, link_mode, pc, exit_code, device, set_link_mode,
                   meters, printed, id_print, id_prints, heard, inflight, simulated, waited>>

\* The exit-after deadline of createSerialCommunicationManager(exitafter),
\* exitafter # 0, checked by the loop of waitForStop between telegrams.
ExitAfter ==
    /\ pc = "wait"
    /\ inflight = NoCallback
    /\ running
    /\ Stop("exitafter")
    /\ UNCHANGED <<config, link_mode_set, link_mode, pc, exit_code, device, set_link_mode,
                   meters, printed, id_print, id_prints, heard, inflight, simulated, waited>>

\* ------------------------------------------------------------- oneshotCheck
oneshotCheck_ignores_flag(ms) ==
    IF \E i \in 1..Len(ms) : ms[i].num_updates = 0
    THEN UNCHANGED <<running, stops>>
    ELSE Stop("oneshotCheck")

oneshotCheck(ms) ==
    IF ~config.oneshot
    THEN UNCHANGED <<running, stops>>
    ELSE IF \E i \in 1..Len(ms) : ms[i].num_updates = 0
         THEN UNCHANGED <<running, stops>>
         ELSE Stop("oneshotCheck")

\* ----------------------------------------------------------------- dispatch
\* isTelegramForMe: the telegram is of the meter's family and carries its id.
Matches(meter, t) == meter.factory = t.kind /\ meter.id = t.id

\* The index of the first meter, in the order of the vector, that matches t;
\* 0 when none does.
FirstMatch(ms, t) ==
    IF \E i \in 1..Len(ms) : Matches(ms[i], t)
    THEN CHOOSE i \in 1..Len(ms) :
            /\ Matches(ms[i], t)
            /\ \A j \in 1..(i - 1) : ~Matches(ms[j], t)
    ELSE 0

\* The adapter may emit a telegram: it is open, the manager runs, and the
\* callbacks of the previous telegram have returned.
MayEmit_after_stop == inflight = NoCallback /\ Len(heard) < MaxTelegrams

MayEmit == running /\ inflight = NoCallback /\ Len(heard) < MaxTelegrams

Handles_undecrypted(i, t) == i # 0

\* Meter i takes telegram t as an update: t is for it and decrypts with its key.
Handles(i, t) == i # 0 /\ t.decrypts

\* The adapter emits telegram t to its listeners: the id printer if it is
\* registered, and the meters, of which the first that matches handles it.
Emit(t) ==
    /\ heard' = Append(heard, [id |-> t.id, decrypts |-> t.decrypts])
    /\ id_prints' = IF id_print THEN Append(id_prints, t.id) ELSE id_prints
    /\ LET i == FirstMatch(meters, t) IN
          IF Handles(i, t)
          THEN /\ meters' = [meters EXCEPT ![i].num_updates = @ + 1]
               /\ inflight' = IF Len(meters[i].on_update) = 0 THEN NoCallback
                                                              ELSE [m |-> i, k |-> 1]
          ELSE UNCHANGED <<meters, inflight>>

\* A dongle or rtl_wmbus delivers a telegram while the loop of waitForStop runs.
Receive ==
    /\ pc = "wait"
    /\ device # "DEVICE_SIMULATOR"
    /\ MayEmit
    /\ \E t \in Telegrams : Emit(t)
    /\ UNCHANGED <<config, link_mode_set, link_mode, pc, exit_code, device, set_link_mode,
                   printed, id_print, running, stops, simulated, waited>>

\* The next update callback of the handling meter runs.
RunCallback ==
    /\ inflight # NoCallback
    /\ LET i  == inflight.m
           cb == meters[i].on_update[inflight.k]
       IN  /\ IF cb = "print"
              THEN /\ printed' = [printed EXCEPT ![i] = @ + 1]
                   /\ UNCHANGED <<running, stops>>
              ELSE /\ oneshotCheck(meters)
                   /\ UNCHANGED printed
           /\ inflight' = IF inflight.k < Len(meters[i].on_update)
                          THEN [inflight EXCEPT !.k = @ + 1]
                          ELSE NoCallback
    /\ UNCHANGED <<config, link_mode_set, link_mode, pc, exit_code, device, set_link_mode,
                   meters, id_print, id_prints, heard, simulated, waited>>

\* ------------------------------------------------- simulate and waitForStop
\* if (type_and_device.first == DEVICE_SIMULATOR) wmbus->simulate();
Simulate ==
    /\ pc = "started"
    /\ device = "DEVICE_SIMULATOR"
    /\ pc' = "simulate"
    /\ simulated' = TRUE
    /\ UNCHANGED <<config, link_mode_set, link_mode, exit_code, device, set_link_mode, meters,
                   printed, id_print, id_prints, heard, running, stops, inflight, waited>>

\* simulate() emits the next telegram of its file.
SimulateEmit ==
    /\ pc = "simulate"
    /\ MayEmit
    /\ \E t \in Telegrams : Emit(t)
    /\ UNCHANGED <<config, link_mode_set, link_mode, pc, exit_code, device, set_link_mode,
                   printed, id_print, running, stops, simulated, waited>>

\* simulate() returns, at the end of its file or once the manager is stopped,
\* and manager->waitForStop() is entered.
SimulateReturn ==
    /\ pc = "simulate"
    /\ inflight = NoCallback
    /\ pc' = "wait"
    /\ waited' = TRUE
    /\ UNCHANGED <<config, link_mode_set, link_mode, exit_code, device, set_link_mode, meters,
                   printed, id_print, id_prints, heard, running, stops, inflight, simulated>>

\* manager->waitForStop() is entered directly for every other device.
WaitForStop ==
    /\ pc = "started"
    /\ device # "DEVICE_SIMULATOR"
    /\ pc' = "wait"
    /\ waited' = TRUE
    /\ UNCHANGED <<config, link_mode_set, link_mode, exit_code, device, set_link_mode, meters,
                   printed, id_print, id_prints, heard, running, stops, inflight, simulated>>

\* waitForStop() returns once the manager is stopped and no callback runs.
WaitForStopReturns ==
    /\ pc = "wait"
    /\ ~running
    /\ inflight = NoCallback
    /\ pc' = "done"
    /\ UNCHANGED <<config, link_mode_set, link_mode, exit_code, device, set_link_mode, meters,
                   printed, id_print, id_prints, heard, running, stops, inflight, simulated,
                   waited>>

\* ------------------------------------------------------------ specification
StartUp ==
    \/ DetectDevice
    \/ ExamineMeters
    \/ CheckLinkModeSet
    \/ SetLinkMode
    \/ CreateMeter
    \/ RegisterIdPrint
    \/ Simulate
    \/ SimulateReturn
    \/ WaitForStop
    \/ WaitForStopReturns

Next ==
    \/ StartUp
    \/ RunCallback
    \/ Receive
    \/ SimulateEmit
    \/ ExitHandler
    \/ ExitAfter

Spec == Init /\ [][Next]_vars

\* The main thread is never starved: start-up, the callbacks of a telegram and
\* the return of waitForStop happen when they can. Telegrams and signals need not.
FairSpec == Spec /\ WF_vars(StartUp) /\ WF_vars(RunCallback)

\* ------------------------------------------------------------- vocabulary of the properties
EventLoopEntered == simulated \/ waited

PastStartUp == pc \in {"started", "simulate", "wait", "done"}

AllMetersCreated == Len(meters) = Len(config.meters)

AllMetersUpdated ==
    /\ AllMetersCreated
    /\ \A i \in 1..Len(meters) : meters[i].num_updates >= 1

NothingHandled ==
    /\ heard = <<>>
    /\ id_prints = <<>>
    /\ inflight = NoCallback
    /\ \A i \in 1..Len(meters) : meters[i].num_updates = 0 /\ printed[i] = 0

KnownType(i) == toMeterType(config.meters[i].type) # "UNKNOWN_METER"

HasUnknownMeter == \E i \in 1..Len(config.meters) : ~KnownType(i)

RequiredLinkMode(i) == toMeterLinkMode(config.meters[i].type)

SingleMode == {"DEVICE_IM871A", "DEVICE_AMB8465"}

LinkModeArg == set_link_mode[1]

\* ------------------------------------------------------------------- C1
\* C1 (as amended): oneshotCheck calls stop() only when oneshot is on and
\* every configured meter has an update count >= 1; and with oneshot on and
\* at least one meter configured, once every configured meter has an update
\* count >= 1 and the callbacks of the telegram have returned, oneshotCheck
\* has called stop().
C1_OneshotStop ==
    /\ "oneshotCheck" \in stops => config.oneshot /\ AllMetersUpdated
    /\ (config.oneshot /\ Len(config.meters) >= 1 /\ AllMetersUpdated /\ inflight = NoCallback)
          => "oneshotCheck" \in stops

\* C1 as stated: the same with the empty meter list included, once a
\* telegram has gone through the event loop.
C1_OneshotStop_EmptyListToo ==
    /\ "oneshotCheck" \in stops => config.oneshot /\ AllMetersUpdated
    /\ (config.oneshot /\ AllMetersUpdated /\ inflight = NoCallback /\ Len(heard) >= 1)
          => "oneshotCheck" \in stops

C1_Witness ==
    /\ "oneshotCheck" \in stops
    /\ Len(meters) = 2
    /\ pc = "done"

\* ------------------------------------------------------------------- C2
\* C2: for the telegram being handled the print callback has returned before
\* oneshotCheck runs, and when oneshotCheck has called stop() every
\* configured meter has been printed at least once.
C2_PrintBeforeStop ==
    /\ \A i \in 1..Len(meters) :
          printed[i] = IF inflight.m = i /\ inflight.k = 1
                       THEN meters[i].num_updates - 1
                       ELSE meters[i].num_updates
    /\ inflight # NoCallback =>
          meters[inflight.m].on_update[inflight.k] =
              IF inflight.k = 1 THEN "print" ELSE "oneshotCheck"
    /\ "oneshotCheck" \in stops =>
          /\ AllMetersCreated
          /\ \A i \in 1..Len(meters) : printed[i] >= 1

C2_Witness ==
    /\ "oneshotCheck" \in stops
    /\ Len(meters) = 2
    /\ printed = <<1, 1>>
    /\ inflight = NoCallback

C4_FatalStartUp ==
    /\ device = "DEVICE_UNKNOWN" => pc = "exited" /\ exit_code = "1"
    /\ HasUnknownMeter =>
          /\ ~PastStartUp
          /\ pc = "exited" \/ ENABLED StartUp
          /\ (pc = "exited" /\ exit_code = "0") => config.list_shell_envs /\ KnownType(1)
    /\ (device = "DEVICE_UNKNOWN" \/ HasUnknownMeter) =>
          ~simulated /\ ~waited /\ NothingHandled

\* C4 as stated: with a meter of unknown type every exit is an error.
C4_FatalStartUp_AlwaysError ==
    /\ device = "DEVICE_UNKNOWN" => pc = "exited" /\ exit_code = "1"
    /\ HasUnknownMeter =>
          /\ ~PastStartUp
          /\ pc = "exited" \/ ENABLED StartUp
          /\ pc = "exited" => exit_code # "0"
    /\ (device = "DEVICE_UNKNOWN" \/ HasUnknownMeter) =>
          ~simulated /\ ~waited /\ NothingHandled

C4_Witness ==
    /\ HasUnknownMeter
    /\ pc = "exited"
    /\ exit_code = "error"
    /\ Len(set_link_mode) = 1
    /\ Len(meters) = 1

\* ------------------------------------------------------------------- C5
LinkModeConflict ==
    /\ ~HasUnknownMeter
    /\ \E i, j \in 1..Len(config.meters) : RequiredLinkMode(i) # RequiredLinkMode(j)

\* C5: with two configured meters of different link modes, on IM871A or
\* AMB8465 setLinkMode() is never called and the event loop never entered,
\* with or without --c1/--t1; on RTL-WMBUS there is no error.
C5_LinkModeConflictFatal ==
    /\ (LinkModeConflict /\ device \in SingleMode) =>
          /\ set_link_mode = <<>>
          /\ ~EventLoopEntered
    /\ (LinkModeConflict /\ device = "DEVICE_RTLWMBUS") => exit_code # "error"

\* ------------------------------------------------------------------- C6
\* C6: the id printer is registered iff no meter is configured; when it is,
\* the ids printed are the ids of the telegrams emitted, one print for each
\* and in their order; when a meter is configured nothing is printed by it.
C6_Discovery ==
    /\ id_print => Len(config.meters) = 0
    /\ PastStartUp => (id_print <=> Len(config.meters) = 0)
    /\ id_print => id_prints = [k \in 1..Len(heard) |-> heard[k].id]
    /\ ~id_print => id_prints = <<>>

C6_Witness ==
    /\ id_print
    /\ Len(id_prints) = 2
    /\ id_prints[1] # id_prints[2]

AllUndecrypted == \A k \in 1..Len(heard) : ~heard[k].decrypts

C9_LinkModeInference ==
    /\ Len(set_link_mode) <= 1
    /\ (set_link_mode # <<>> /\ config.link_mode_set) => LinkModeArg = config.link_mode
    /\ (set_link_mode # <<>> /\ ~config.link_mode_set /\ Len(config.meters) >= 1) =>
          /\ LinkModeArg = RequiredLinkMode(1)
          /\ device # "DEVICE_RTLWMBUS" =>
                \A i \in 1..Len(config.meters) : LinkModeArg = RequiredLinkMode(i)

\* C9 as stated: on every run that reaches setLinkMode(), hence on RTL-WMBUS
\* too, the inferred link mode is that of every configured meter.
C9_LinkModeInference_EveryMeter ==
    /\ Len(set_link_mode) <= 1
    /\ (set_link_mode # <<>> /\ config.link_mode_set) => LinkModeArg = config.link_mode
    /\ (set_link_mode # <<>> /\ ~config.link_mode_set /\ Len(config.meters) >= 1) =>
          /\ LinkModeArg = RequiredLinkMode(1)
          /\ \A i \in 1..Len(config.meters) : LinkModeArg = RequiredLinkMode(i)

C9_Witness ==
    /\ set_link_mode # <<>>
    /\ ~config.link_mode_set
    /\ Len(config.meters) = 2
    /\ device = "DEVICE_RTLWMBUS"
    /\ RequiredLinkMode(1) # RequiredLinkMode(2)

\* ------------------------------------------------------------------ C10
NoMetersNoLinkMode == Len(config.meters) = 0 /\ ~config.link_mode_set

\* C10: with no meter and no link mode, on IM871A or AMB8465 start-up ends in
\* an error before setLinkMode() and the event loop; on RTL-WMBUS or the
\* simulator it does not exit, calls setLinkMode() with the unset link mode
\* and registers the id printer. On IM871A or AMB8465 setLinkMode() only
\* gets an explicit link mode or the link mode of a configured meter.
C10_MissingLinkMode ==
    /\ (NoMetersNoLinkMode /\ device \in SingleMode) =>
          /\ set_link_mode = <<>>
          /\ ~EventLoopEntered
          /\ pc \in {"infer", "checklm", "exited"}
          /\ pc = "exited" => exit_code = "error"
    /\ (NoMetersNoLinkMode /\ device \in {"DEVICE_RTLWMBUS", "DEVICE_SIMULATOR"}) =>
          /\ pc # "exited"
          /\ pc \notin {"infer", "checklm", "setlm"} => set_link_mode = <<LinkModeUnset>>
          /\ PastStartUp => id_print
    /\ (device \in SingleMode /\ set_link_mode # <<>>) =>
          \/ config.link_mode_set /\ LinkModeArg = config.link_mode
          \/ Len(config.meters) >= 1 /\ LinkModeArg = RequiredLinkMode(1)

C10_Witness ==
    /\ NoMetersNoLinkMode
    /\ device = "DEVICE_SIMULATOR"
    /\ set_link_mode = <<LinkModeUnset>>
    /\ id_print
    /\ pc = "wait"

====
